---- MODULE Spec2Model ----
(***************************************************************************)
(* Model of gup, a release helper: version-tag negotiation, commit-message *)
(* normalisation, identity resolution, AI refinement and the review /      *)
(* commit sequence, for the two entry points gup/__main__.py and gup.py.   *)
(*                                                                         *)
(* Texts that the program cuts or inspects character by character are      *)
(* tuples of one-character strings; names, tags and configuration values   *)
(* that are only compared or concatenated are strings.                     *)
(***************************************************************************)
EXTENDS Integers, Sequences, FiniteSets, TLC

\* ------------------------------------------------------------------------
\* Bounds of the model
\* ------------------------------------------------------------------------
\* largest patch number of a tag present before the run
MaxPatch == 3
\* longest text given to the normaliser
MaxLen == 5
\* largest first-line limit given to the normaliser
MaxLimit == 3

\* ------------------------------------------------------------------------
\* Characters and Python string primitives
\* ------------------------------------------------------------------------
NL == "\n"
SP == " "
\* U+2026, the marker truncate_summary appends (one character)
Ellipsis == "<U+2026>"

\* str.isspace() for the characters of the model
IsSpace(c) == c \in {SP, NL}

RECURSIVE lstrip(_)
lstrip(s) ==
    IF s # <<>> /\ IsSpace(Head(s)) THEN lstrip(Tail(s)) ELSE s

RECURSIVE rstrip(_)
rstrip(s) ==
    IF s # <<>> /\ IsSpace(s[Len(s)]) THEN rstrip(SubSeq(s, 1, Len(s) - 1)) ELSE s

\* str.strip()
strip(s) == rstrip(lstrip(s))

\* s[:n]
Prefix(s, n) == SubSeq(s, 1, IF n < Len(s) THEN n ELSE Len(s))

\* c in s
HasChar(s, c) == \E i \in 1..Len(s) : s[i] = c

\* index of the first / last occurrence of c in s (0 when absent)
FirstIndex(s, c) ==
    IF HasChar(s, c) THEN CHOOSE i \in 1..Len(s) : s[i] = c /\ \A j \in 1..(i-1) : s[j] # c
    ELSE 0

LastIndex(s, c) ==
    IF HasChar(s, c) THEN CHOOSE i \in 1..Len(s) : s[i] = c /\ \A j \in (i+1)..Len(s) : s[j] # c
    ELSE 0

\* s.rsplit(c, 1)[0]
RsplitHead(s, c) ==
    IF HasChar(s, c) THEN SubSeq(s, 1, LastIndex(s, c) - 1) ELSE s

\* str.splitlines(): a trailing line break does not open an empty last line
RECURSIVE splitlines(_)
splitlines(s) ==
    IF s = <<>> THEN <<>>
    ELSE IF ~HasChar(s, NL) THEN <<s>>
    ELSE <<SubSeq(s, 1, FirstIndex(s, NL) - 1)>>
         \o splitlines(SubSeq(s, FirstIndex(s, NL) + 1, Len(s)))

\* "\n".join(lines)
RECURSIVE join(_)
join(lines) ==
    IF lines = <<>> THEN <<>>
    ELSE IF Len(lines) = 1 THEN lines[1]
    ELSE lines[1] \o <<NL>> \o join(Tail(lines))

\* the text before the first line break
FirstLine(s) == IF HasChar(s, NL) THEN SubSeq(s, 1, FirstIndex(s, NL) - 1) ELSE s

\* str(n) for 0 <= n <= 99
Digit == <<"0", "1", "2", "3", "4", "5", "6", "7", "8", "9">>
ToStr(n) ==
    IF n < 10 THEN Digit[n + 1] ELSE Digit[(n \div 10) + 1] \o Digit[(n % 10) + 1]

\* ------------------------------------------------------------------------
\* Message Normalizer
\* ------------------------------------------------------------------------
\* enforce_summary_limit with the fit test written < instead of <=
enforce_summary_limit_strict(msg, lim) ==
    LET lines == splitlines(strip(msg)) IN
    IF lines = <<>> THEN msg
    ELSE LET s == lines[1] IN
         IF Len(s) < lim THEN msg
         ELSE LET cut0 == Prefix(s, lim)
                  cut  == IF HasChar(cut0, SP) THEN RsplitHead(cut0, SP) ELSE cut0
              IN join(<<cut>> \o Tail(lines))

\* gup/__main__.py enforce_summary_limit(msg, limit)
enforce_summary_limit(msg, lim) ==
    LET lines == splitlines(strip(msg)) IN
    IF lines = <<>> THEN msg
    ELSE LET s == lines[1] IN
         IF Len(s) <= lim THEN msg
         ELSE LET cut0 == Prefix(s, lim)
                  cut  == IF HasChar(cut0, SP) THEN RsplitHead(cut0, SP) ELSE cut0
              IN join(<<cut>> \o Tail(lines))

\* gup.py truncate_summary(s, limit)
truncate_summary(s0, lim) ==
    LET s == strip(s0) IN
    IF Len(s) <= lim THEN s
    ELSE LET cut0 == Prefix(s, lim)
             cut  == IF HasChar(cut0, SP) THEN RsplitHead(cut0, SP) ELSE cut0
         IN cut \o <<Ellipsis>>

\* ------------------------------------------------------------------------
\* Version Negotiator
\* ------------------------------------------------------------------------
\* f"v{major}.{minor}.{patch}"
TagName(major, minor, patch) ==
    "v" \o ToStr(major) \o "." \o ToStr(minor) \o "." \o ToStr(patch)

\* gup/__main__.py tag_exists(tag): git show-ref against the repository's tags
tag_exists(tag, tagset) == tag \in tagset

\* a search that starts at the patch itself instead of patch + 1
RECURSIVE next_free_version_from_patch(_, _, _, _)
next_free_version_from_patch(major, minor, patch, tagset) ==
    LET candidate == TagName(major, minor, patch) IN
    IF ~tag_exists(candidate, tagset) THEN candidate
    ELSE next_free_version_from_patch(major, minor, patch + 1, tagset)

\* gup/__main__.py next_free_version(major, minor, patch)
RECURSIVE next_free_version(_, _, _, _)
next_free_version(major, minor, patch, tagset) ==
    LET candidate == TagName(major, minor, patch + 1) IN
    IF ~tag_exists(candidate, tagset) THEN candidate
    ELSE next_free_version(major, minor, patch + 1, tagset)

\* ------------------------------------------------------------------------
\* Configuration and Identity Resolver
\* ------------------------------------------------------------------------
\* a key that is absent from a configuration scope
Unset == "<unset>"

\* git config <key> without a scope option: the repository's value when the
\* key is set there, otherwise the global value; safe() turns the failure
\* of an absent key into ""
git_config(conf, key) ==
    IF conf.repo[key] # Unset THEN conf.repo[key]
    ELSE IF conf.global[key] # Unset THEN conf.global[key]
    ELSE ""

\* git config --global <key> through safe()
git_config_global(conf, key) ==
    IF conf.global[key] # Unset THEN conf.global[key] ELSE ""

\* git config --global <key> <value>: gup.py lines 77-78
git_config_set_global(conf, key, value) ==
    [conf EXCEPT !.global[key] = value]

\* git_config_set with the write going to the global scope
git_config_set_wrong_scope(conf, key, value) ==
    [conf EXCEPT !.global[key] = value]

\* git config <key> <value>: writes the repository scope
git_config_set(conf, key, value) ==
    [conf EXCEPT !.repo[key] = value]

\* gup/__main__.py read_identity(): <<name, email, provenance>>
read_identity(conf) ==
    LET n  == git_config(conf, "user.name")
        e  == git_config(conf, "user.email")
        gn == git_config_global(conf, "user.name")
        ge == git_config_global(conf, "user.email")
    IN IF n # "" \/ e # "" THEN <<n, e, "repo">>
       ELSE IF gn # "" \/ ge # "" THEN <<gn, ge, "global">>
       ELSE <<"", "", "none">>

\* ------------------------------------------------------------------------
\* Fixed texts of the program
\* ------------------------------------------------------------------------
\* line 288: the summary of the very first commit
MsgInitialCommit ==
    <<"I", "n", "i", "t", "i", "a", "l", SP, "c", "o", "m", "m", "i", "t">>

\* line 289: the summary for one staged file
MsgUpdateConfig ==
    <<"U", "p", "d", "a", "t", "e", SP, "p", "r", "o", "j", "e", "c", "t",
      SP, "c", "o", "n", "f", "i", "g", "u", "r", "a", "t", "i", "o", "n">>

\* line 290: f"Update {len(files)} project files", before and after the count
MsgUpdatePrefix ==
    <<"U", "p", "d", "a", "t", "e", SP>>

MsgUpdateSuffix ==
    <<SP, "p", "r", "o", "j", "e", "c", "t", SP, "f", "i", "l", "e", "s">>

\* line 320
ReasonTimedOut ==
    <<"A", "I", SP, "r", "e", "q", "u", "e", "s", "t", SP, "t", "i", "m",
      "e", "d", SP, "o", "u", "t">>

\* line 325
ReasonEmptyOutput ==
    <<"A", "I", SP, "r", "e", "t", "u", "r", "n", "e", "d", SP, "e", "m",
      "p", "t", "y", SP, "o", "u", "t", "p", "u", "t">>

\* gup.py line 227: the message used when the manual input is blank
MsgUpdate ==
    <<"u", "p", "d", "a", "t", "e">>

\* gup.py line 128: the refusal phrasings
RefusalWhatWouldYou ==
    <<"w", "h", "a", "t", SP, "w", "o", "u", "l", "d", SP, "y", "o", "u",
      SP, "l", "i", "k", "e", SP, "m", "e", SP, "t", "o">>

RefusalPleaseProvide ==
    <<"p", "l", "e", "a", "s", "e", SP, "p", "r", "o", "v", "i", "d", "e",
      SP, "m", "e">>

\* ------------------------------------------------------------------------
\* Inputs of the environment: subprocess output, exception texts, typed text
\* ------------------------------------------------------------------------
\* what the llm subprocess may print on its standard output
OutEmpty ==
    <<>>

OutBlank ==
    <<SP, NL>>

OutShort ==
    <<"o", "k", NL>>

OutRefusal ==
    <<"P", "l", "e", "a", "s", "e", SP, "p", "r", "o", "v", "i", "d", "e",
      SP, "m", "e", SP, "t", "h", "e", SP, "d", "i", "f", "f", ".", NL>>

OutGood ==
    <<"F", "i", "x", SP, "t", "a", "g", SP, "l", "o", "o", "k", "u", "p", NL>>

\* what the llm subprocess may print on its standard error
ErrEmpty ==
    <<>>

ErrQuota ==
    <<"E", "r", "r", "o", "r", ":", SP, "q", "u", "o", "t", "a", NL>>

\* str(e) of an exception raised while launching or reading the subprocess
ExcLaunch ==
    <<"N", "o", SP, "s", "u", "c", "h", SP, "f", "i", "l", "e", SP, "o",
      "r", SP, "d", "i", "r", "e", "c", "t", "o", "r", "y", ":", SP, "'",
      "l", "l", "m", "'">>

ExcDecode ==
    <<"'", "u", "t", "f", "-", "8", "'", SP, "c", "o", "d", "e", "c", SP,
      "c", "a", "n", "'", "t", SP, "d", "e", "c", "o", "d", "e", SP, "b",
      "y", "t", "e">>

\* what the user may type as a commit message
TypedFix ==
    <<"F", "i", "x", SP, "t", "y", "p", "o", SP, NL>>

AIOutputs == {OutEmpty, OutBlank, OutShort, OutRefusal, OutGood}
AIErrors == {ErrEmpty, ErrQuota}
TypedMessages == {TypedFix}

\* Python's None, for a value that is otherwise a text
None == <<"<None>">>

\* ------------------------------------------------------------------------
\* More string primitives
\* ------------------------------------------------------------------------
\* the decimal digits of n >= 0, one character each
RECURSIVE DigitsOf(_)
DigitsOf(n) ==
    IF n < 10 THEN <<Digit[n + 1]>> ELSE DigitsOf(n \div 10) \o <<Digit[(n % 10) + 1]>>

UpperCase ==
    <<"A", "B", "C", "D", "E", "F", "G", "H", "I", "J", "K", "L", "M",
      "N", "O", "P", "Q", "R", "S", "T", "U", "V", "W", "X", "Y", "Z">>
LowerCase ==
    <<"a", "b", "c", "d", "e", "f", "g", "h", "i", "j", "k", "l", "m",
      "n", "o", "p", "q", "r", "s", "t", "u", "v", "w", "x", "y", "z">>

\* str.lower()
LowerChar(c) ==
    IF \E i \in 1..26 : UpperCase[i] = c
    THEN LowerCase[CHOOSE i \in 1..26 : UpperCase[i] = c]
    ELSE c
lower(s) == [i \in 1..Len(s) |-> LowerChar(s[i])]

\* sub in s
Contains(s, sub) ==
    \E i \in 0..(Len(s) - Len(sub)) : SubSeq(s, i + 1, i + Len(sub)) = sub

\* str(n) for -99 <= n <= 99
ToStrInt(n) == IF n < 0 THEN "-" \o ToStr(0 - n) ELSE ToStr(n)

\* the decimal forms int() reads back in the model
IntStrings == [n \in -9..99 |-> ToStrInt(n)]

\* int(s): the integer whose decimal form is s, NoInt when int(s) raises
NoInt == 0 - 1000
ParseInt(s) ==
    IF \E n \in DOMAIN IntStrings : IntStrings[n] = s
    THEN CHOOSE n \in DOMAIN IntStrings : IntStrings[n] = s
    ELSE NoInt

\* ------------------------------------------------------------------------
\* Timeout handling
\* ------------------------------------------------------------------------
\* gup/__main__.py line 66: the range clamp_timeout clamps to
MinTimeout == 1
MaxTimeout == 60
\* gup/__main__.py line 63: default="12"
DefaultTimeout == "12"

\* gup/__main__.py clamp_timeout(val)
clamp_timeout(val) ==
    LET t == ParseInt(val) IN
    IF t = NoInt THEN DefaultTimeout
    ELSE ToStr(IF t < MinTimeout THEN MinTimeout ELSE IF t > MaxTimeout THEN MaxTimeout ELSE t)

\* the loop of wait_with_countdown: the subprocess exits exitAt seconds after
\* its launch, proc.poll() at elapsed seconds sees it once exitAt <= elapsed
RECURSIVE countdown(_, _, _)
countdown(exitAt, remaining, elapsed) ==
    IF remaining > 0
    THEN IF exitAt <= elapsed THEN TRUE
         ELSE countdown(exitAt, remaining - 1, elapsed + 1)
    ELSE FALSE

\* wait_with_countdown that reports completion when the budget runs out
wait_with_countdown_never_expires(exitAt, timeout) ==
    exitAt >= 0 \/ ParseInt(timeout) >= 0

\* gup/__main__.py wait_with_countdown(proc, timeout)
wait_with_countdown(exitAt, timeout) == countdown(exitAt, ParseInt(timeout), 0)

\* ------------------------------------------------------------------------
\* Change-Summary Heuristic
\* ------------------------------------------------------------------------
\* gup/__main__.py lines 287-291
default_commit_msg(bootstrap, nfiles) ==
    IF bootstrap THEN MsgInitialCommit
    ELSE IF nfiles = 1 THEN MsgUpdateConfig
    ELSE MsgUpdatePrefix \o DigitsOf(nfiles) \o MsgUpdateSuffix

\* ------------------------------------------------------------------------
\* Parsing the latest tag
\* ------------------------------------------------------------------------
\* what may follow the three numbers in a tag name
TagSuffixes == {"", "-rc"}
\* the numbers a tag of the model may hold
VersionNumbers == 0..(MaxPatch + 2)

\* every tag name the pattern v<digits>.<digits>.<digits> reads, with its
\* reading <<name, major, minor, patch, suffix>>
ReadableTags ==
    {<<TagName(r[1], r[2], r[3]) \o r[4], r[1], r[2], r[3], r[4]>> :
        r \in VersionNumbers \X VersionNumbers \X VersionNumbers \X TagSuffixes}

\* the <<major, minor, patch, suffix>> readings of a tag name
TagReadings(tag) ==
    {<<r[2], r[3], r[4], r[5]>> : r \in {x \in ReadableTags : x[1] = tag}}

\* gup/__main__.py lines 262-263: re.match(r"v(\d+)\.(\d+)\.(\d+)", last),
\* not anchored at the end; (0, 0, 0) when there is no match
parse_last(last) ==
    IF TagReadings(last) # {}
    THEN LET r == CHOOSE r \in TagReadings(last) : TRUE IN <<r[1], r[2], r[3]>>
    ELSE <<0, 0, 0>>

\* gup.py semantic(tag): the pattern anchored at both ends; None otherwise
semantic(tag) ==
    IF \E r \in TagReadings(tag) : r[4] = ""
    THEN LET r == CHOOSE r \in TagReadings(tag) : r[4] = "" IN <<r[1], r[2], r[3]>>
    ELSE None

\* ------------------------------------------------------------------------
\* AI response validation
\* ------------------------------------------------------------------------
\* gup.py line 122: the minimum length of an accepted response
MinResponseLen == 10

\* gup.py lines 122-132: the text accepted from the subprocess, or None
validate_response(out) ==
    IF out = <<>> \/ Len(strip(out)) < MinResponseLen THEN None
    ELSE IF Contains(lower(out), RefusalWhatWouldYou)
            \/ Contains(lower(out), RefusalPleaseProvide) THEN None
    ELSE strip(out)

\* gup/__main__.py line 97: limit=72
SummaryLimit == 72
\* gup.py line 51: limit=80
TitleLimit == 80

\* read_response without the fallback text for an empty standard error
read_response_bare_stderr(out, err, commit_msg) ==
    IF strip(out) # <<>> THEN <<enforce_summary_limit(strip(out), SummaryLimit), None>>
    ELSE <<commit_msg, strip(err)>>

\* gup/__main__.py lines 322-325: <<message, reason>> after communicate()
read_response(out, err, commit_msg) ==
    IF strip(out) # <<>> THEN <<enforce_summary_limit(strip(out), SummaryLimit), None>>
    ELSE <<commit_msg, IF strip(err) # <<>> THEN strip(err) ELSE ReasonEmptyOutput>>

\* ------------------------------------------------------------------------
\* State
\* ------------------------------------------------------------------------
VARIABLES
    pc,            \* position of the run / of the function under check
    tags,          \* names of the tags that exist in the repository
    config,        \* git configuration: [repo |-> [key -> value], global |-> ...]
    ver,           \* <<major, minor, patch>> parsed from the latest tag
    next_version,  \* the tag chosen for the release ("" before it is computed)
    texts,         \* a text and its successive normalisations
    limit,         \* first-line limit given to the normaliser
    fn,            \* which normaliser is applied
    name,          \* resolved author name
    email,         \* resolved author email
    source,        \* provenance of the identity
    entry,         \* the entry point that runs: "main" (gup/__main__.py), "script" (gup.py)
    exit_code,     \* "" while running, the exit status, "exception" for a traceback
    hasCommits,    \* whether HEAD exists
    worktree,      \* files changed in the working tree and not staged
    index,         \* files staged for commit
    last_tag,      \* what git describe --tags --abbrev=0 answers ("" when it fails)
    commits,       \* the commits the run has created
    remote,        \* what the run has pushed: [branch |-> BOOLEAN, tags |-> set]
    log,           \* the git commands of a commit sequence that have succeeded
    bootstrap,     \* local: not has_commits()
    last,          \* local: the latest tag the version is computed from
    files,         \* local: the staged files
    model,         \* local: the selected model id
    timeout,       \* local: the wait budget, a decimal string
    commit_msg,    \* local: the draft message
    ai_warning,    \* local: the reason of the last failed refinement, or None
    title,         \* gup.py local: the truncated summary
    ai,            \* the llm subprocess: [state, exitAt]
    draft_by,      \* who wrote the current draft: "heuristic", "ai", "user"
    start          \* the index, configuration and tags when the run started

repoVars  == <<tags, config>>
verVars   == <<ver, next_version>>
normVars  == <<texts, limit, fn>>
identVars == <<name, email, source>>
envVars   == <<hasCommits, worktree, index, last_tag, commits, remote, log>>
localVars == <<bootstrap, last, files, model, timeout, commit_msg, ai_warning, title>>
runVars   == <<entry, exit_code, envVars, localVars, ai, draft_by, start>>
vars == <<pc, repoVars, verVars, normVars, identVars, runVars>>

ConfigKeys == {"user.name", "user.email", "gup.model", "gup.timeout"}
GlobalKeys == ConfigKeys

EmptyConfig ==
    [repo |-> [k \in ConfigKeys |-> Unset], global |-> [k \in GlobalKeys |-> Unset]]

RepoIdle  == tags = {} /\ config = EmptyConfig
VerIdle   == ver = <<0, 0, 0>> /\ next_version = ""
NormIdle  == texts = <<>> /\ limit = 0 /\ fn = ""
IdentIdle == name = "" /\ email = "" /\ source = ""

NoProcess == [state |-> "none", exitAt |-> 0]
NothingPushed == [branch |-> FALSE, tags |-> {}]

EnvIdle ==
    /\ hasCommits = FALSE /\ worktree = {} /\ index = {} /\ last_tag = ""
    /\ commits = <<>> /\ remote = NothingPushed /\ log = <<>>
LocalIdle ==
    /\ bootstrap = FALSE /\ last = "" /\ files = {} /\ model = "" /\ timeout = ""
    /\ commit_msg = <<>> /\ ai_warning = None /\ title = <<>>
RunIdle ==
    /\ entry = "" /\ exit_code = "" /\ EnvIdle /\ LocalIdle
    /\ ai = NoProcess /\ draft_by = "" /\ start = <<>>

\* ------------------------------------------------------------------------
\* next_free_version over every tag set and input
\* ------------------------------------------------------------------------
\* the <<major, minor>> series that tags of the model belong to
Series == {<<1, 2>>, <<0, 0>>}

SeriesTags == {TagName(s[1], s[2], p) : s \in Series, p \in 0..MaxPatch}

InitVersion ==
    /\ pc = "start"
    /\ tags \in SUBSET SeriesTags
    /\ config = EmptyConfig
    /\ ver \in {<<s[1], s[2], p>> : s \in Series, p \in 0..MaxPatch}
    /\ next_version = ""
    /\ NormIdle /\ IdentIdle /\ RunIdle

CallNextFreeVersion ==
    /\ pc = "start"
    /\ next_version' = next_free_version(ver[1], ver[2], ver[3], tags)
    /\ pc' = "done"
    /\ UNCHANGED <<repoVars, ver, normVars, identVars, runVars>>

NextVersion == CallNextFreeVersion

SpecVersion == InitVersion /\ [][NextVersion]_vars

\* ------------------------------------------------------------------------
\* The normalisers over every short text and limit
\* ------------------------------------------------------------------------
Alphabet == {"a", SP, NL}

Texts == UNION {[1..n -> Alphabet] : n \in 0..MaxLen}

InitNorm ==
    /\ pc = "start"
    /\ texts \in {<<m>> : m \in Texts}
    /\ limit \in 1..MaxLimit
    /\ fn \in {"enforce_summary_limit", "truncate_summary"}
    /\ RepoIdle /\ VerIdle /\ IdentIdle /\ RunIdle

CallEnforceSummaryLimit ==
    /\ fn = "enforce_summary_limit"
    /\ Len(texts) < 3
    /\ texts' = Append(texts, enforce_summary_limit(texts[Len(texts)], limit))
    /\ pc' = "done"
    /\ UNCHANGED <<repoVars, verVars, limit, fn, identVars, runVars>>

CallTruncateSummary ==
    /\ fn = "truncate_summary"
    /\ Len(texts) < 3
    /\ texts' = Append(texts, truncate_summary(texts[Len(texts)], limit))
    /\ pc' = "done"
    /\ UNCHANGED <<repoVars, verVars, limit, fn, identVars, runVars>>

NextNorm == CallEnforceSummaryLimit \/ CallTruncateSummary

SpecNorm == InitNorm /\ [][NextNorm]_vars

\* ------------------------------------------------------------------------
\* read_identity over every configuration
\* ------------------------------------------------------------------------
NameValues  == {Unset, "", "n"}
EmailValues == {Unset, "", "e"}

IdentityConfigs ==
    {[repo |-> [k \in ConfigKeys |->
                   IF k = "user.name" THEN rn ELSE IF k = "user.email" THEN re ELSE Unset],
      global |-> [k \in GlobalKeys |->
                   IF k = "user.name" THEN gn ELSE IF k = "user.email" THEN ge ELSE Unset]] :
        rn \in NameValues, re \in EmailValues, gn \in NameValues, ge \in EmailValues}

InitIdent ==
    /\ pc = "start"
    /\ tags = {}
    /\ config \in IdentityConfigs
    /\ VerIdle /\ NormIdle /\ IdentIdle /\ RunIdle

CallReadIdentity ==
    /\ pc = "start"
    /\ LET r == read_identity(config) IN
         /\ name' = r[1]
         /\ email' = r[2]
         /\ source' = r[3]
    /\ pc' = "done"
    /\ UNCHANGED <<repoVars, verVars, normVars, runVars>>

NextIdent == CallReadIdentity

SpecIdent == InitIdent /\ [][NextIdent]_vars

\* ------------------------------------------------------------------------
\* A run of the tool: inputs
\* ------------------------------------------------------------------------
\* largest number of changed files in the working tree
MaxFiles == 2
\* latest exit time of the llm subprocess, in seconds after its launch,
\* besides a subprocess that outlives every budget
MaxExit == 1

\* a subprocess still running after the longest budget
NeverExits == MaxTimeout + 1
ExitTimes == (0..MaxExit) \cup {NeverExits}

\* the ids list_llm_models() parses from `llm models`
LlmModels == <<"m1", "m2">>
\* gup.py line 11
DEFAULT_MODEL == "gpt-4o-mini"

\* what the user may type at a prompt
NameInputs == {"", " ", "u"}
EmailInputs == {"", "u@x"}
TimeoutInputs == {"", "0"}
MenuInputs == {"1", "2", "3", "4", "5", "x"}
\* pick_model: <<first answer, answer to "Select model:">>
PickInputs == {<<"", "">>, <<"2", "">>, <<"3", "1">>, <<"3", "x">>}

\* input(...).strip() for the typed lines of the model
StripTyped(s) == IF s = " " THEN "" ELSE s

\* the configurations a run may start from: identity, then gup.model / gup.timeout
RunIdentities ==
    { <<Unset, Unset, Unset, Unset>>, <<Unset, Unset, "gn", "ge">>,
      <<"rn", Unset, Unset, "ge">>,   <<Unset, Unset, "gn", Unset>> }
RunSettings == { <<Unset, Unset>>, <<"m2", "99">> }

RunConfig(id, st) ==
    [repo |-> [k \in ConfigKeys |->
                   CASE k = "user.name" -> id[1]
                     [] k = "user.email" -> id[2]
                     [] k = "gup.model" -> st[1]
                     [] k = "gup.timeout" -> st[2]],
     global |-> [k \in GlobalKeys |->
                   IF k = "user.name" THEN id[3] ELSE IF k = "user.email" THEN id[4] ELSE Unset]]

\* the tags a run may start from, with what git describe answers
TwoTags ==
    [has |-> TRUE,  tags |-> {TagName(1, 2, MaxPatch), TagName(1, 2, MaxPatch + 1)},
                    last |-> TagName(1, 2, MaxPatch)]
TagScenarios ==
    { [has |-> FALSE, tags |-> {}, last |-> ""],
      [has |-> TRUE,  tags |-> {}, last |-> ""],
      [has |-> TRUE,  tags |-> {TagName(1, 2, MaxPatch)}, last |-> TagName(1, 2, MaxPatch)],
      TwoTags,
      [has |-> TRUE,  tags |-> {"rel"}, last |-> "rel"],
      [has |-> TRUE,  tags |-> {TagName(1, 2, MaxPatch) \o "-rc"},
                      last |-> TagName(1, 2, MaxPatch) \o "-rc"] }

\* the working tree and index a run may start from
FileScenarios ==
    {[worktree |-> 1..n, index |-> {}] : n \in 0..MaxFiles}
    \cup {[worktree |-> {MaxFiles}, index |-> {1}]}

\* the starting points explored: each input varies while the others keep
\* one value
BaseStart ==
    [sc |-> TwoTags, id |-> <<Unset, Unset, "gn", "ge">>, st |-> <<Unset, Unset>>,
     fs |-> [worktree |-> 1..MaxFiles, index |-> {}]]
RunStarts ==
    {[BaseStart EXCEPT !.sc = x] : x \in TagScenarios}
    \cup {[BaseStart EXCEPT !.id = x] : x \in RunIdentities}
    \cup {[BaseStart EXCEPT !.st = x] : x \in RunSettings}
    \cup {[BaseStart EXCEPT !.fs = x] : x \in FileScenarios}
    \cup {[BaseStart EXCEPT !.sc = [has |-> FALSE, tags |-> {}, last |-> ""], !.fs = x] :
             x \in FileScenarios}

InitRun ==
    /\ pc = "start"
    /\ entry \in {"main", "script"}
    /\ exit_code = ""
    /\ \E st \in RunStarts :
         /\ hasCommits = st.sc.has /\ tags = st.sc.tags /\ last_tag = st.sc.last
         /\ config = RunConfig(st.id, st.st)
         /\ worktree = st.fs.worktree /\ index = st.fs.index
    /\ commits = <<>> /\ remote = NothingPushed /\ log = <<>>
    /\ LocalIdle
    /\ ai = NoProcess /\ draft_by = ""
    /\ start = [index |-> index, worktree |-> worktree, config |-> config, tags |-> tags]
    /\ VerIdle /\ NormIdle /\ IdentIdle

\* ------------------------------------------------------------------------
\* Steps shared by the two entry points
\* ------------------------------------------------------------------------
\* sys.exit(code)
Exit(code) == pc' = "exit" /\ exit_code' = code

\* an exception that nothing catches: the run ends with a traceback
Raise == pc' = "exit" /\ exit_code' = "exception"

\* subprocess.check_call(["git", "commit", "-m", ...], env=env): the commit
\* takes the index; git refuses to commit an empty index; a failure raises
CommitStep(here, next, what, record) ==
    /\ pc = here
    /\ \/ /\ index # {}
          /\ commits' = Append(commits, record)
          /\ index' = {}
          /\ hasCommits' = TRUE
          /\ log' = Append(log, what)
          /\ pc' = next
          /\ UNCHANGED exit_code
       \/ Raise /\ UNCHANGED <<commits, index, hasCommits, log>>
    /\ UNCHANGED <<repoVars, verVars, normVars, identVars, entry, worktree, last_tag,
                   remote, localVars, ai, draft_by, start>>

\* git tag -a <tag>: fails when the tag exists; a failure raises
TagStep(here, next, what, tag) ==
    /\ pc = here
    /\ \/ /\ tag \notin tags
          /\ tags' = tags \cup {tag}
          /\ log' = Append(log, what)
          /\ pc' = next
          /\ UNCHANGED exit_code
       \/ Raise /\ UNCHANGED <<tags, log>>
    /\ UNCHANGED <<config, verVars, normVars, identVars, entry, hasCommits, worktree, index,
                   last_tag, commits, remote, localVars, ai, draft_by, start>>

\* git tag -a <tag> whose failure is not noticed: the run goes on
TagStepUnchecked(here, next, what, tag) ==
    /\ pc = here
    /\ \/ /\ tag \notin tags
          /\ tags' = tags \cup {tag}
          /\ log' = Append(log, what)
       \/ UNCHANGED <<tags, log>>
    /\ pc' = next
    /\ UNCHANGED <<config, verVars, normVars, identVars, entry, exit_code, hasCommits,
                   worktree, index, last_tag, commits, remote, localVars, ai, draft_by, start>>

\* git push -u origin <branch>; a failure raises
PushBranchStep(here, next, what) ==
    /\ pc = here
    /\ \/ /\ remote' = [remote EXCEPT !.branch = TRUE]
          /\ log' = Append(log, what)
          /\ pc' = next
          /\ UNCHANGED exit_code
       \/ Raise /\ UNCHANGED <<remote, log>>
    /\ UNCHANGED <<repoVars, verVars, normVars, identVars, entry, hasCommits, worktree, index,
                   last_tag, commits, localVars, ai, draft_by, start>>

\* git push origin <tag>; a failure raises; `done` tells whether the run
\* ends with this step
PushTagStep(here, next, what, tag, done) ==
    /\ pc = here
    /\ \/ /\ remote' = [remote EXCEPT !.tags = @ \cup {tag}]
          /\ log' = Append(log, what)
          /\ IF done THEN Exit("0") ELSE pc' = next /\ UNCHANGED exit_code
       \/ Raise /\ UNCHANGED <<remote, log>>
    /\ UNCHANGED <<repoVars, verVars, normVars, identVars, entry, hasCommits, worktree, index,
                   last_tag, commits, localVars, ai, draft_by, start>>

\* git add .: everything changed in the working tree is staged; a failure raises
AddStep(here, next) ==
    /\ pc = here
    /\ \/ /\ index' = index \cup worktree
          /\ worktree' = {}
          /\ pc' = next
          /\ UNCHANGED exit_code
       \/ Raise /\ UNCHANGED <<index, worktree>>
    /\ UNCHANGED <<repoVars, verVars, normVars, identVars, entry, hasCommits, last_tag,
                   commits, remote, log, localVars, ai, draft_by, start>>

\* ------------------------------------------------------------------------
\* gup/__main__.py main()
\* ------------------------------------------------------------------------
\* lines 228-259: repository check, stale-branch check, nothing-to-commit check
MainStart ==
    /\ pc = "start" /\ entry = "main"
    /\ \E inside \in BOOLEAN,
          sync \in {"current", "fetch_failed", "behind_declined", "behind_ff_failed", "behind_ff_ok"} :
         IF ~inside THEN Exit("1") /\ UNCHANGED bootstrap
         ELSE IF sync = "fetch_failed" THEN Raise /\ UNCHANGED bootstrap
         ELSE IF sync \in {"behind_declined", "behind_ff_failed"} THEN Exit("1") /\ UNCHANGED bootstrap
         ELSE /\ bootstrap' = ~hasCommits
              /\ IF hasCommits /\ worktree \cup index = {}
                 THEN Exit("0")
                 ELSE pc' = "m_version" /\ UNCHANGED exit_code
    /\ UNCHANGED <<repoVars, verVars, normVars, identVars, entry, envVars, last,
                   files, model, timeout, commit_msg, ai_warning, title, ai, draft_by, start>>

\* lines 261-264: the next version
MainVersion ==
    /\ pc = "m_version"
    /\ LET l == IF bootstrap THEN TagName(0, 0, 0)
                ELSE IF last_tag # "" THEN last_tag ELSE TagName(0, 0, 0)
           v == parse_last(l)
       IN /\ last' = l
          /\ ver' = v
          /\ next_version' = next_free_version(v[1], v[2], v[3], tags)
    /\ pc' = "m_identity"
    /\ UNCHANGED <<repoVars, normVars, identVars, entry, exit_code, envVars, bootstrap,
                   files, model, timeout, commit_msg, ai_warning, title, ai, draft_by, start>>

\* gup/__main__.py prompt_identity(n, e)
prompt_identity(n, e, typedName, typedEmail) ==
    << IF StripTyped(typedName) # "" THEN StripTyped(typedName) ELSE n,
       IF StripTyped(typedEmail) # "" THEN StripTyped(typedEmail) ELSE e >>

\* lines 266-269: the identity, prompted when no scope has one
MainIdentity ==
    /\ pc = "m_identity"
    /\ LET r == read_identity(config) IN
         IF r[3] = "none"
         THEN \E tn \in NameInputs, te \in EmailInputs :
                 /\ name' = prompt_identity("", "", tn, te)[1]
                 /\ email' = prompt_identity("", "", tn, te)[2]
                 /\ source' = "prompted"
         ELSE name' = r[1] /\ email' = r[2] /\ source' = r[3]
    /\ pc' = "m_stage"
    /\ UNCHANGED <<repoVars, verVars, normVars, runVars>>

\* lines 271-276: git add . and the staged files
MainStage ==
    /\ pc = "m_stage"
    /\ \E added \in BOOLEAN :
         IF ~added
         THEN Raise /\ UNCHANGED <<worktree, index, files>>
         ELSE /\ index' = index \cup worktree
              /\ worktree' = {}
              /\ files' = index \cup worktree
              /\ IF index \cup worktree = {}
                 THEN Exit("0")
                 ELSE pc' = "m_model" /\ UNCHANGED exit_code
    /\ UNCHANGED <<repoVars, verVars, normVars, identVars, entry, hasCommits, last_tag,
                   commits, remote, log, bootstrap, last, model, timeout, commit_msg,
                   ai_warning, title, ai, draft_by, start>>

\* models[i] with Python's indexing, None for an IndexError
PyIndex(seq, i) ==
    IF i >= 0 /\ i < Len(seq) THEN seq[i + 1]
    ELSE IF i < 0 /\ i >= 0 - Len(seq) THEN seq[Len(seq) + i + 1]
    ELSE "IndexError"

\* gup/__main__.py pick_model(models): the chosen id, or the exception
pick_model(models, c, sel) ==
    IF c = "3"
    THEN IF ParseInt(sel) = NoInt THEN "ValueError" ELSE PyIndex(models, ParseInt(sel) - 1)
    ELSE IF ParseInt(c) # NoInt /\ ParseInt(c) \in {1, 2}
    THEN PyIndex(models, ParseInt(c) - 1)
    ELSE PyIndex(models, 0)

PickFailed(m) == m \in {"ValueError", "IndexError"}

\* lines 278-291: model and timeout from the configuration, the default draft
MainModel ==
    /\ pc = "m_model"
    /\ timeout' = clamp_timeout(git_config(config, "gup.timeout"))
    /\ commit_msg' = default_commit_msg(bootstrap, Cardinality(files))
    /\ draft_by' = "heuristic"
    /\ LET model_id == git_config(config, "gup.model") IN
         IF \E i \in 1..Len(LlmModels) : LlmModels[i] = model_id
         THEN model' = model_id /\ pc' = "m_popen" /\ UNCHANGED <<config, exit_code>>
         ELSE \E pk \in PickInputs :
                LET m == pick_model(LlmModels, pk[1], pk[2]) IN
                IF PickFailed(m) THEN Raise /\ UNCHANGED <<model, config>>
                ELSE /\ model' = m
                     /\ config' = git_config_set(config, "gup.model", m)
                     /\ pc' = "m_popen" /\ UNCHANGED exit_code
    /\ UNCHANGED <<tags, verVars, normVars, identVars, entry, envVars, bootstrap, last, files,
                   ai_warning, title, ai, start>>

\* generate_message, lines 294-313: the prompt and the launch of llm
MainPopen ==
    /\ pc = "m_popen"
    /\ \/ \E t \in ExitTimes :
            /\ ai' = [state |-> "running", exitAt |-> t]
            /\ pc' = "m_wait"
            /\ UNCHANGED ai_warning
       \/ \* Popen raises: caught at line 327
          /\ ai' = [state |-> "failed", exitAt |-> 0]
          /\ ai_warning' = ExcLaunch
          /\ pc' = "m_review"
    /\ UNCHANGED <<repoVars, verVars, normVars, identVars, entry, exit_code, envVars,
                   bootstrap, last, files, model, timeout, commit_msg, title, draft_by, start>>

\* generate_message, lines 315-328: the bounded wait and the response
MainWait ==
    /\ pc = "m_wait"
    /\ IF ~wait_with_countdown(ai.exitAt, timeout)
       THEN /\ ai' = [state |-> "killed", exitAt |-> 0]
            /\ ai_warning' = ReasonTimedOut
            /\ UNCHANGED <<commit_msg, draft_by>>
       ELSE /\ ai' = [state |-> "exited", exitAt |-> 0]
            /\ \/ \E out \in AIOutputs, err \in AIErrors :
                    LET r == read_response(out, err, commit_msg) IN
                    /\ commit_msg' = r[1]
                    /\ ai_warning' = r[2]
                    /\ draft_by' = IF r[2] = None THEN "ai" ELSE draft_by
               \/ \* communicate() raises: caught at line 327
                  /\ ai_warning' = ExcDecode
                  /\ UNCHANGED <<commit_msg, draft_by>>
    /\ pc' = "m_review"
    /\ UNCHANGED <<repoVars, verVars, normVars, identVars, entry, exit_code, envVars,
                   bootstrap, last, files, model, timeout, title, start>>

\* lines 337-379: one turn of the review loop
MainReview ==
    /\ pc = "m_review"
    /\ \E c \in MenuInputs :
         CASE c = "1" ->
                /\ pc' = "m_commit"
                /\ UNCHANGED <<config, identVars, exit_code, model, timeout, commit_msg, draft_by>>
           [] c = "2" ->
                \E tn \in NameInputs, te \in EmailInputs :
                  LET id == prompt_identity(name, email, tn, te) IN
                  /\ name' = id[1]
                  /\ email' = id[2]
                  /\ config' = git_config_set(git_config_set(config, "user.name", id[1]),
                                              "user.email", id[2])
                  /\ source' = "repo"
                  /\ UNCHANGED <<pc, exit_code, model, timeout, commit_msg, draft_by>>
           [] c = "3" ->
                \E typed \in TypedMessages :
                  /\ commit_msg' = enforce_summary_limit(strip(typed), SummaryLimit)
                  /\ draft_by' = "user"
                  /\ UNCHANGED <<pc, config, identVars, exit_code, model, timeout>>
           [] c = "4" ->
                \E pk \in PickInputs, typed \in TimeoutInputs :
                  LET m == pick_model(LlmModels, pk[1], pk[2])
                      t == clamp_timeout(IF typed # "" THEN typed ELSE timeout)
                  IN IF PickFailed(m)
                     THEN Raise /\ UNCHANGED <<config, identVars, model, timeout, commit_msg, draft_by>>
                     ELSE /\ model' = m
                          /\ timeout' = t
                          /\ config' = git_config_set(git_config_set(config, "gup.model", m),
                                                      "gup.timeout", t)
                          /\ pc' = "m_popen"
                          /\ UNCHANGED <<identVars, exit_code, commit_msg, draft_by>>
           [] c = "5" ->
                /\ pc' = "cancelled" /\ exit_code' = "0"
                /\ UNCHANGED <<config, identVars, model, timeout, commit_msg, draft_by>>
           [] OTHER ->
                UNCHANGED <<pc, config, identVars, exit_code, model, timeout, commit_msg, draft_by>>
    /\ UNCHANGED <<tags, verVars, normVars, entry, envVars, bootstrap, last, files,
                   ai_warning, title, ai, start>>

\* the record of a commit made by main(): lines 381-396
MainCommitRecord ==
    [msg |-> commit_msg, title |-> <<>>, version |-> next_version,
     name |-> name, email |-> email]

\* line 396: git commit
MainCommit == CommitStep("m_commit", "m_tag", "commit", MainCommitRecord)

\* line 397 with the exit status of git tag ignored
MainTagUnchecked == TagStepUnchecked("m_tag", "m_push_branch", "tag", next_version)

\* line 397: git tag -a
MainTag == TagStep("m_tag", "m_push_branch", "tag", next_version)

\* lines 399-400: git push -u origin <branch>
MainPushBranch == PushBranchStep("m_push_branch", "m_push_tag", "push_branch")

\* lines 401-403: git push origin <tag>, then the run is over
MainPushTag == PushTagStep("m_push_tag", "exit", "push_tag", next_version, TRUE)

NextMain ==
    \/ MainStart \/ MainVersion \/ MainIdentity \/ MainStage \/ MainModel
    \/ MainPopen \/ MainWait \/ MainReview
    \/ MainCommit \/ MainTag \/ MainPushBranch \/ MainPushTag

\* ------------------------------------------------------------------------
\* gup.py, the script
\* ------------------------------------------------------------------------
\* what the user may answer to "Enter model or leave empty for default"
ModelInputs == {"", "m2"}
\* what the user may answer to "Save identity globally? (y/N)"
SaveInputs == {"y", ""}
\* what the user may type at "Enter commit message:"
ManualInputs == {<<>>, TypedFix}

\* gup.py lines 166-167, 177-178: the initial tag
InitialTag == TagName(0, 1, 0)

\* lines 144-152: repository check, then the bootstrap or the normal path
ScriptStart ==
    /\ pc = "start" /\ entry = "script"
    /\ \E inside \in BOOLEAN :
         IF ~inside THEN Exit("1") /\ UNCHANGED bootstrap
         ELSE /\ bootstrap' = ~hasCommits
              /\ pc' = IF hasCommits THEN "s_describe" ELSE "s_boot_identity"
              /\ UNCHANGED exit_code
    /\ UNCHANGED <<repoVars, verVars, normVars, identVars, entry, envVars, last,
                   files, model, timeout, commit_msg, ai_warning, title, ai, draft_by, start>>

\* gup.py ensure_identity(), lines 60-81
EnsureIdentity(here, next) ==
    /\ pc = here
    /\ LET gn == git_config_global(config, "user.name")
           ge == git_config_global(config, "user.email")
       IN IF gn # "" /\ ge # ""
          THEN /\ name' = gn /\ email' = ge
               /\ pc' = next
               /\ UNCHANGED <<config, exit_code>>
          ELSE \E tn \in NameInputs, te \in EmailInputs, save \in SaveInputs :
                 LET n == StripTyped(tn)
                     e == StripTyped(te)
                 IN IF n = "" \/ e = ""
                    THEN Exit("4") /\ UNCHANGED <<name, email, config>>
                    ELSE /\ name' = n /\ email' = e
                         /\ config' = IF save = "y"
                                      THEN git_config_set_global(
                                               git_config_set_global(config, "user.name", n),
                                               "user.email", e)
                                      ELSE config
                         /\ pc' = next
                         /\ UNCHANGED exit_code
    /\ UNCHANGED <<tags, verVars, normVars, source, entry, envVars, localVars, ai, draft_by, start>>

\* line 155
ScriptBootIdentity == EnsureIdentity("s_boot_identity", "s_boot_add")

\* line 163
ScriptBootAdd == AddStep("s_boot_add", "s_boot_commit")

\* line 164: the commit "Initial commit"
ScriptBootCommit ==
    CommitStep("s_boot_commit", "s_boot_tag", "boot_commit",
               [msg |-> MsgInitialCommit, title |-> <<>>, version |-> "",
                name |-> name, email |-> email])

\* lines 166-167
ScriptBootTag == TagStep("s_boot_tag", "s_boot_push_branch", "boot_tag", InitialTag)

\* lines 169-170
ScriptBootPushBranch == PushBranchStep("s_boot_push_branch", "s_boot_push_tag", "boot_push_branch")

\* line 171
ScriptBootPushTag == PushTagStep("s_boot_push_tag", "s_boot_done", "boot_push_tag", InitialTag, FALSE)

\* lines 173, 175-176: the latest tag: the initial tag after a bootstrap,
\* otherwise what git describe answers
ScriptDescribe ==
    /\ pc \in {"s_boot_done", "s_describe"}
    /\ IF pc = "s_boot_done"
       THEN last' = InitialTag /\ pc' = "s_version"
       ELSE IF last_tag # ""
       THEN last' = last_tag /\ pc' = "s_version"
       ELSE last' = last_tag /\ pc' = "s_init_tag"
    /\ UNCHANGED <<repoVars, verVars, normVars, identVars, entry, exit_code, envVars, bootstrap,
                   files, model, timeout, commit_msg, ai_warning, title, ai, draft_by, start>>

\* lines 177-178: no tag yet, the initial tag is created on HEAD
ScriptInitTag == TagStep("s_init_tag", "s_init_push_tag", "init_tag", InitialTag)

\* line 179
ScriptInitPushTag == PushTagStep("s_init_push_tag", "s_init_done", "init_push_tag", InitialTag, FALSE)

\* lines 180, 185-191: the next version is the patch after the latest tag
ScriptVersion ==
    /\ pc \in {"s_version", "s_init_done"}
    /\ LET l == IF pc = "s_init_done" THEN InitialTag ELSE last
           sem == semantic(l)
       IN /\ last' = l
          /\ IF sem = None
             THEN Exit("2") /\ UNCHANGED verVars
             ELSE /\ ver' = sem
                  /\ next_version' = TagName(sem[1], sem[2], sem[3] + 1)
                  /\ pc' = "s_stage"
                  /\ UNCHANGED exit_code
    /\ UNCHANGED <<repoVars, normVars, identVars, entry, envVars, bootstrap,
                   files, model, timeout, commit_msg, ai_warning, title, ai, draft_by, start>>

\* lines 196-204: git add . and the staged files
ScriptStage ==
    /\ pc = "s_stage"
    /\ \E added \in BOOLEAN :
         IF ~added
         THEN Raise /\ UNCHANGED <<worktree, index, files>>
         ELSE /\ index' = index \cup worktree
              /\ worktree' = {}
              /\ files' = index \cup worktree
              /\ IF index \cup worktree = {}
                 THEN Exit("3")
                 ELSE pc' = "s_model" /\ UNCHANGED exit_code
    /\ UNCHANGED <<repoVars, verVars, normVars, identVars, entry, hasCommits, last_tag,
                   commits, remote, log, bootstrap, last, model, timeout, commit_msg,
                   ai_warning, title, ai, draft_by, start>>

\* lines 209-211: the model
ScriptModel ==
    /\ pc = "s_model"
    /\ \E typed \in ModelInputs :
         model' = IF StripTyped(typed) # "" THEN StripTyped(typed) ELSE DEFAULT_MODEL
    /\ pc' = "s_ai1"
    /\ UNCHANGED <<repoVars, verVars, normVars, identVars, entry, exit_code, envVars, bootstrap,
                   last, files, timeout, commit_msg, ai_warning, title, ai, draft_by, start>>

\* gup.py line 117: the fixed wait budget of communicate()
ScriptTimeout == 25

\* gup.py generate_ai_commit_message(model, diff), lines 86-139: the accepted
\* text or None, and what becomes of the subprocess. The launch may raise,
\* communicate() may raise or time out, and all of it is caught.
generate_ai_commit_message(launched, exitAt, readable, out) ==
    IF ~launched THEN [result |-> None, state |-> "failed"]
    ELSE IF exitAt > ScriptTimeout THEN [result |-> None, state |-> "running"]
    ELSE IF ~readable THEN [result |-> None, state |-> "exited"]
    ELSE [result |-> validate_response(out), state |-> "exited"]

\* lines 218 and 223: the first attempt and the retry with a shrunk diff
ScriptGenerate ==
    /\ pc \in {"s_ai1", "s_ai2"}
    /\ \E launched \in BOOLEAN, t \in ExitTimes, readable \in BOOLEAN, out \in AIOutputs :
         LET r == generate_ai_commit_message(launched, t, readable, out) IN
         /\ ai' = [state |-> r.state, exitAt |-> 0]
         /\ commit_msg' = r.result
         /\ draft_by' = IF r.result = None THEN draft_by ELSE "ai"
         /\ pc' = IF r.result # None THEN "s_title"
                  ELSE IF pc = "s_ai1" THEN "s_ai2" ELSE "s_manual"
    /\ UNCHANGED <<repoVars, verVars, normVars, identVars, entry, exit_code, envVars, bootstrap,
                   last, files, model, timeout, ai_warning, title, start>>

\* lines 225-227: the manual message
ScriptManual ==
    /\ pc = "s_manual"
    /\ \E typed \in ManualInputs :
         commit_msg' = IF strip(typed) # <<>> THEN strip(typed) ELSE MsgUpdate
    /\ draft_by' = "user"
    /\ pc' = "s_title"
    /\ UNCHANGED <<repoVars, verVars, normVars, identVars, entry, exit_code, envVars, bootstrap,
                   last, files, model, timeout, ai_warning, title, ai, start>>

\* lines 229-230: the title of the release
ScriptTitle ==
    /\ pc = "s_title"
    /\ LET first == strip(FirstLine(commit_msg))
           summary == IF first # <<>> THEN first ELSE MsgUpdate
       IN title' = truncate_summary(summary, TitleLimit)
    /\ pc' = "s_identity"
    /\ UNCHANGED <<repoVars, verVars, normVars, identVars, entry, exit_code, envVars, bootstrap,
                   last, files, model, timeout, commit_msg, ai_warning, ai, draft_by, start>>

\* line 246
ScriptIdentity == EnsureIdentity("s_identity", "s_commit")

\* the record of the release commit of the script: lines 237-257
ScriptCommitRecord ==
    [msg |-> commit_msg, title |-> title, version |-> next_version,
     name |-> name, email |-> email]

\* line 257
ScriptCommit == CommitStep("s_commit", "s_tag", "commit", ScriptCommitRecord)

\* line 259
ScriptTag == TagStep("s_tag", "s_push_branch", "tag", next_version)

\* lines 261-262
ScriptPushBranch == PushBranchStep("s_push_branch", "s_push_tag", "push_branch")

\* lines 263-265
ScriptPushTag == PushTagStep("s_push_tag", "exit", "push_tag", next_version, TRUE)

NextScript ==
    \/ ScriptStart \/ ScriptBootIdentity \/ ScriptBootAdd \/ ScriptBootCommit
    \/ ScriptBootTag \/ ScriptBootPushBranch \/ ScriptBootPushTag
    \/ ScriptDescribe \/ ScriptInitTag \/ ScriptInitPushTag \/ ScriptVersion
    \/ ScriptStage \/ ScriptModel \/ ScriptGenerate \/ ScriptManual \/ ScriptTitle
    \/ ScriptIdentity \/ ScriptCommit \/ ScriptTag \/ ScriptPushBranch \/ ScriptPushTag

Next == NextMain \/ NextScript

Spec == InitRun /\ [][Next]_vars

\* ------------------------------------------------------------------------
\* Properties of the Version Negotiator
\* ------------------------------------------------------------------------
\* C1: next_free_version(major, minor, patch) returns v{major}.{minor}.{k}
\* for the smallest k > patch whose tag is not in the used set: the result
\* is not a used tag and every patch number between patch and k is used.
C1_SmallestFreePatch ==
    pc = "done" /\ next_version # "" =>
        \E k \in (ver[3] + 1)..(ver[3] + MaxPatch + 3) :
            /\ next_version = TagName(ver[1], ver[2], k)
            /\ next_version \notin tags
            /\ \A j \in (ver[3] + 1)..(k - 1) : TagName(ver[1], ver[2], j) \in tags

\* C1 witness: the search skipped at least two used tags, as in the
\* scenario tags {v1.2.3, v1.2.4}, input (1,2,3), result v1.2.5
C1_Witness ==
    /\ pc = "done"
    /\ ver = <<1, 2, 1>>
    /\ {TagName(1, 2, 2), TagName(1, 2, 3)} \subseteq tags
    /\ next_version = TagName(1, 2, 4)

\* ------------------------------------------------------------------------
\* Properties of the Message Normalizer
\* ------------------------------------------------------------------------
\* C2: the first line of enforce_summary_limit(msg, limit) and the result
\* of truncate_summary(s, limit) have at most limit characters, for every
\* text, also when the over-long line has no space, the marker included.
C2_FirstLineWithinLimit ==
    Len(texts) >= 2 =>
        /\ fn = "enforce_summary_limit" => Len(FirstLine(texts[2])) <= limit
        /\ fn = "truncate_summary" => Len(texts[2]) <= limit

\* whether a text has no leading or trailing whitespace
IsStripped(m) == strip(m) = m

IsSet(v) == v # Unset /\ v # ""

\* C4: read_identity reports "repo" exactly when a repo-scoped field is
\* set, "global" exactly when no repo-scoped field is set and a global one
\* is, and ("", "", "none") exactly when all four are unset.
C4_ProvenanceOrdering ==
    pc = "done" /\ source # "" =>
        LET repoSet   == IsSet(config.repo["user.name"]) \/ IsSet(config.repo["user.email"])
            globalSet == IsSet(config.global["user.name"]) \/ IsSet(config.global["user.email"])
        IN /\ source = "repo" <=> repoSet
           /\ source = "global" <=> (~repoSet /\ globalSet)
           /\ source = "none" <=> (~repoSet /\ ~globalSet)
           /\ source = "none" => name = "" /\ email = ""

\* ------------------------------------------------------------------------
\* Properties of the AI Refinement Request
\* ------------------------------------------------------------------------
\* a reason that is present and not empty
IsReason(r) == r # None /\ r # <<>>

\* the texts generate_message can accept from the subprocess
AcceptedByMain ==
    {enforce_summary_limit(strip(out), SummaryLimit) : out \in {o \in AIOutputs : strip(o) # <<>>}}

\* C5: no refinement attempt ends the run with an exception, whatever the
\* subprocess does: generate_message returns to the review with either an
\* accepted text and no reason, or the prior draft and a non-empty reason;
\* generate_ai_commit_message returns an accepted text or None and the
\* script goes on.
C5_RefinementAlwaysReturns ==
    [][ /\ pc = "m_popen" =>
             /\ exit_code' = "" /\ pc' \in {"m_wait", "m_review"}
             /\ pc' = "m_review" => commit_msg' = commit_msg /\ IsReason(ai_warning')
        /\ pc = "m_wait" =>
             /\ exit_code' = "" /\ pc' = "m_review"
             /\ \/ ai_warning' = None /\ commit_msg' \in AcceptedByMain
                \/ commit_msg' = commit_msg /\ IsReason(ai_warning')
        /\ pc \in {"s_ai1", "s_ai2"} =>
             /\ exit_code' = ""
             /\ \/ commit_msg' = None /\ pc' \in {"s_ai2", "s_manual"}
                \/ commit_msg' \in {strip(o) : o \in AIOutputs} /\ commit_msg' # <<>>
                   /\ pc' = "s_title"
      ]_vars

\* C5 witness: a subprocess that printed nothing but an error was absorbed:
\* the run is in the review with the prior draft and the error as reason
C5_Witness ==
    /\ entry = "main" /\ pc = "m_review" /\ exit_code = ""
    /\ ai.state = "exited"
    /\ ai_warning = strip(ErrQuota)
    /\ commit_msg = MsgUpdateConfig

\* C6: a subprocess still running when the budget is spent is killed, the
\* reason is the timeout, the draft is unchanged and the run goes on to the
\* review; a commit made from a draft that neither the AI nor the user has
\* replaced carries the heuristic default message.
C6_TimeoutKeepsDraft ==
    /\ [][ pc = "m_wait" /\ ai.exitAt > ParseInt(timeout) =>
             /\ ai'.state = "killed"
             /\ ai_warning' = ReasonTimedOut
             /\ commit_msg' = commit_msg /\ draft_by' = draft_by
             /\ pc' = "m_review" /\ exit_code' = "" ]_vars
    /\ [](entry = "main" /\ commits # <<>> /\ draft_by = "heuristic" =>
             /\ commits[Len(commits)].msg = default_commit_msg(bootstrap, Cardinality(files))
             /\ commits[Len(commits)].msg \in
                  {MsgInitialCommit, MsgUpdateConfig}
                  \cup {MsgUpdatePrefix \o DigitsOf(n) \o MsgUpdateSuffix : n \in 2..(MaxFiles + 1)})

\* C6 witness: the subprocess was killed at the timeout and the release was
\* then completed with the one-file default message
C6_Witness ==
    /\ entry = "main" /\ pc = "exit" /\ exit_code = "0"
    /\ ai.state = "killed" /\ ai_warning = ReasonTimedOut
    /\ draft_by = "heuristic"
    /\ Len(commits) = 1 /\ commits[1].msg = MsgUpdateConfig
    /\ next_version \in remote.tags

\* whether a text holds one of the refusal phrasings, case-insensitively
IsRefusal(text) ==
    \/ Contains(lower(text), RefusalWhatWouldYou)
    \/ Contains(lower(text), RefusalPleaseProvide)

\* C7: a draft written by the AI has at least 10 characters once trimmed
\* and holds none of the refusal phrasings, after the first attempt and
\* after every regeneration.
C7_OnlyValidResponsesAccepted ==
    draft_by = "ai" /\ commit_msg # None =>
        /\ Len(strip(commit_msg)) >= MinResponseLen
        /\ ~IsRefusal(commit_msg)

\* ------------------------------------------------------------------------
\* Properties of the review loop and of the commit sequence
\* ------------------------------------------------------------------------
\* C8 as stated: after cancel no commit, tag or push has been made and the
\* index and the configuration are those of the start of the run.
C8_CancelRestoresStart ==
    pc = "cancelled" =>
        /\ commits = <<>> /\ tags = start.tags /\ remote = NothingPushed
        /\ index = start.index
        /\ config = start.config

\* C8 amended: after cancel no commit, tag or push has been made and the
\* global configuration is untouched; the index holds everything git add
\* staged, and only the repository scope of the configuration may differ
\* from the start.
C8_CancelLeavesNoRelease ==
    pc = "cancelled" =>
        /\ commits = <<>> /\ tags = start.tags /\ remote = NothingPushed /\ log = <<>>
        /\ config.global = start.config.global
        /\ index = start.index \cup start.worktree

\* C8 witness: a cancel after the staging and after configuration writes
C8_Witness ==
    /\ pc = "cancelled"
    /\ index # start.index
    /\ config.repo["user.name"] # start.config.repo["user.name"]
    /\ config.repo["gup.timeout"] # start.config.repo["gup.timeout"]

\* the steps of the release sequence, in the order of the code
ReleaseOrder == <<"commit", "tag", "push_branch", "push_tag">>
IsReleaseStep(x) == x \in {"commit", "tag", "push_branch", "push_tag"}

\* C9: the release steps that have succeeded are a prefix of commit, tag,
\* push branch, push tag, so no step runs after a failed one; what the
\* completed steps did stays: the commit with the final message, the tag
\* at the new version, the pushed branch, the pushed tag.
C9_ReleaseStepsInOrder ==
    LET rel == SelectSeq(log, IsReleaseStep) IN
    /\ Len(rel) <= 4
    /\ rel = SubSeq(ReleaseOrder, 1, Len(rel))
    /\ Len(rel) >= 1 =>
         /\ commits # <<>>
         /\ commits[Len(commits)].version = next_version
         /\ commits[Len(commits)].msg = commit_msg
    /\ Len(rel) >= 2 <=> (next_version # "" /\ next_version \in tags \ start.tags)
    /\ Len(rel) >= 3 => remote.branch
    /\ Len(rel) = 4 <=> (next_version # "" /\ next_version \in remote.tags)

\* C9 witness: the branch push failed after the commit and the tag, which
\* both remain
C9_Witness ==
    /\ pc = "exit" /\ exit_code = "exception"
    /\ SelectSeq(log, IsReleaseStep) = <<"commit", "tag">>
    /\ Len(commits) = 1
    /\ next_version \in tags
    /\ ~remote.branch

\* C10: the commit steps are never reached with both the author name and
\* the author email empty; in the script every commit has a name and an
\* email, a missing one having ended the run with exit code 4.
C10_EmptyIdentityRejected ==
    /\ entry = "main" /\ pc \in {"m_commit", "m_tag", "m_push_branch", "m_push_tag"} =>
         ~(name = "" /\ email = "")
    /\ entry = "script" /\ pc \in {"s_boot_add", "s_boot_commit", "s_commit"} =>
         name # "" /\ email # ""
    /\ \A i \in 1..Len(commits) : ~(commits[i].name = "" /\ commits[i].email = "")

\* ------------------------------------------------------------------------
\* Properties of the tag creation and of the bounded wait
\* ------------------------------------------------------------------------
\* C11: whenever a run of either entry point is at the tag-creation step of
\* the release, the tag name it is about to create is not in the tag set of
\* the repository; so no run ends with the release commit made and the tag
\* refused because the name was taken.
C11_TagNameIsFree ==
    /\ pc \in {"m_tag", "s_tag"} => next_version \notin tags
    /\ pc = "exit" /\ exit_code = "exception"
          /\ SelectSeq(log, IsReleaseStep) = <<"commit">> =>
         next_version \notin start.tags

\* C12: a subprocess that exits at or before the end of the wait budget is
\* never classified as a timeout: generate_message does not kill it and
\* does not report the timeout reason, it reads its output.
C12_ExitWithinBudgetIsRead ==
    [][ pc = "m_wait" /\ ai.exitAt <= ParseInt(timeout) =>
          /\ ai'.state = "exited"
          /\ ai_warning' # ReasonTimedOut ]_vars

====
